---- MODULE Spec2Model ----
(***************************************************************************)
(* Submission storage, archive packaging, judge dispatch and result        *)
(* interpretation of backend/services/submissions.py (SubmissionService).  *)
(*                                                                         *)
(* Text is modelled as a sequence of one-character strings, so that        *)
(* slicing ([-16:], [:-1]), splitlines(), split(" ") and "\n".join() are   *)
(* computed character by character as Python computes them.                *)
(***************************************************************************)
EXTENDS Integers, Sequences, FiniteSets, TLC

VARIABLES
    utils,       \* backend/autograder_utils: [exists, files]
    cases,       \* es_files/questions/q<n>/<case file>: present or not
    dirs,        \* directories under es_files/submissions that exist
    subs,        \* es_files/submissions/q<n>/<team>.py: [exists, data]
    judge,       \* behaviour of the external Judge0 service
    ret,         \* outcome of the call that has just completed
    lastSubmit,  \* history: contents of the latest submit per (team, question)
    lastGrade,   \* history: latest grade_submission outcome still comparable
    attempt,     \* history: the latest run, and whether it retried a failure
    nChanges,    \* number of submits and environment changes so far
    threads      \* per team: the call its request thread is executing

vars == <<utils, cases, dirs, subs, judge, ret, lastSubmit, lastGrade,
          attempt, nChanges, threads>>

(***************************************************************************)
(* Bounds                                                                  *)
(***************************************************************************)
MaxChanges == 3
MaxTests == 2

Teams == {"t1", "t2"}
Questions == {1, 2}
FileContents == { <<"a">>, <<"b">> }
UtilOrder == <<"run.py", "decorators.py">>

(***************************************************************************)
(* Program constants                                                       *)
(***************************************************************************)
submissions_dir == "es_files/submissions"
utils_dir == "backend/autograder_utils"
language_id == 89
HTTP_CREATED == 201
SyntaxTailLen == 16
lines_to_inlcude == {1, 8, 9, 10, 11}

Disclaimer ==
    <<"N","o","t","e",":"," ","T","h","e","s","e"," ","t","e","s","t","s"," ",
      "m","a","y"," ","o","r"," ","m","a","y"," ","n","o","t"," ","b","e"," ",
      "u","s","e","d"," ","i","n"," ","f","i","n","a","l"," ","s","c","o","r",
      "e"," ","c","a","l","c","u","l","a","t","i","o","n",".","\n">>

SyntaxHeader ==
    <<"R","u","n","n","i","n","g"," ","t","e","s","t","s"," ","f","a","i","l",
      "e","d"," ","d","u","e"," ","t","o"," ","a"," ","s","y","n","t","a","x",
      " ","e","r","r","o","r",".","\n">>

SyntaxMarker ==
    <<"i","n","v","a","l","i","d"," ","s","y","n","t","a","x","\n","\n">>

PassedSuffix == <<" ","p","a","s","s","e","d","!","\n">>

PassedLog == <<"P","a","s","s","e","d">>

(***************************************************************************)
(* Python string operations                                                *)
(***************************************************************************)
\* s[-n:]
Suffix(s, n) ==
    IF Len(s) <= n THEN s ELSE SubSeq(s, Len(s) - n + 1, Len(s))

\* s[:-1]
DropLast(s) ==
    IF Len(s) = 0 THEN s ELSE SubSeq(s, 1, Len(s) - 1)

\* s.splitlines(): "\n", "\r" and "\r\n" end a line; no empty last line.
\* The positions where a line terminator ends:
LineEnds(s) ==
    {i \in 1..Len(s) :
        \/ s[i] = "\n"
        \/ s[i] = "\r" /\ (i = Len(s) \/ s[i + 1] # "\n")}

splitlines(s) ==
    LET ends == LineEnds(s)
        k == Cardinality(ends)
        End(j) == IF j = 0 THEN 0
                  ELSE CHOOSE i \in ends : Cardinality({x \in ends : x <= i}) = j
        Stop(j) == IF s[End(j)] = "\n" /\ End(j) - 1 > End(j - 1)
                      /\ s[End(j) - 1] = "\r"
                   THEN End(j) - 2 ELSE End(j) - 1
    IN  [j \in 1..k |-> SubSeq(s, End(j - 1) + 1, Stop(j))]
        \o (IF End(k) < Len(s) THEN <<SubSeq(s, End(k) + 1, Len(s))>> ELSE <<>>)

\* sep.join(parts)
RECURSIVE join(_, _)
join(sep, parts) ==
    IF Len(parts) = 0 THEN <<>>
    ELSE IF Len(parts) = 1 THEN parts[1]
    ELSE parts[1] \o sep \o join(sep, Tail(parts))

\* s.split(" ")[0]: the text before the first space
RECURSIVE FirstPiece(_, _)
FirstPiece(s, i) ==
    IF i > Len(s) \/ s[i] = " " THEN SubSeq(s, 1, i - 1)
    ELSE FirstPiece(s, i + 1)

split0(s) == FirstPiece(s, 1)

\* [line for i, line in enumerate(output_lines) if i in lines_to_inlcude]
RECURSIVE KeepIndexed(_, _)
KeepIndexed(output_lines, i) ==
    IF i >= Len(output_lines) THEN <<>>
    ELSE (IF i \in lines_to_inlcude THEN <<output_lines[i + 1]>> ELSE <<>>)
         \o KeepIndexed(output_lines, i + 1)

(***************************************************************************)
(* Outcomes of a call: a returned value or a raised exception              *)
(***************************************************************************)
NoMsg == [text |-> "", q |-> 0, team |-> ""]

Msg(text, q, team) == [text |-> text, q |-> q, team |-> team]

ResourceNotFoundException == "ResourceNotFoundException"

(***************************************************************************)
(* File system                                                             *)
(***************************************************************************)
QDir(q) == IF q = 1 THEN "q1" ELSE IF q = 2 THEN "q2" ELSE "q3"

PyFile(team_name) == <<team_name, ".py">>

CaseFiles == {"demo_cases.py", "test_cases.py"}

NoFile == [exists |-> FALSE, data |-> <<>>]

File(data) == [exists |-> TRUE, data |-> data]

SubPaths == {<<submissions_dir, QDir(q), PyFile(t)>> : q \in Questions, t \in Teams}

UtilData(name) == <<"#", name>>

CaseData(q, file) == <<"#", QDir(q), file>>

\* os.listdir(utils_dir): the directory's own (fixed) order
listdir(u) == SelectSeq(UtilOrder, LAMBDA n : n \in u.files)


Outcome(exc, msg, value) == [exc |-> exc, msg |-> msg, value |-> value]

\* raise exc(msg): nothing is returned
Raise(exc, msg) == Outcome(exc, msg, <<>>)

\* return v
Return(v) == Outcome("", NoMsg, <<v>>)

(***************************************************************************)
(* SubmissionService.submit                                                *)
(***************************************************************************)
Submission(question_num, file_contents) ==
    [question_num |-> question_num, file_contents |-> file_contents]

\* the directories after the two makedirs of submit
submit_dirs(d, submission) ==
    d \cup {<<submissions_dir>>,
            <<submissions_dir, QDir(submission.question_num)>>}

\* variant: the file is opened in append mode ("a")
submit_files_append(s, team_name, submission) ==
    LET path == <<submissions_dir, QDir(submission.question_num), PyFile(team_name)>>
    IN  [s EXCEPT ![path] = File(s[path].data \o submission.file_contents)]

\* variant: the question directory is not taken from the submission
submit_files_first_question(s, team_name, submission) ==
    [s EXCEPT ![<<submissions_dir, QDir(1), PyFile(team_name)>>] =
                  File(submission.file_contents)]

\* open(os.path.join(submissions_dir, question_dir, file), "w").write(...)
submit_files(s, team_name, submission) ==
    LET question_dir == QDir(submission.question_num)
        file == PyFile(team_name)
    IN  [s EXCEPT ![<<submissions_dir, question_dir, file>>] =
                      File(submission.file_contents)]

(***************************************************************************)
(* SubmissionService.package_submission                                    *)
(***************************************************************************)
ZipEntry(arcname, data) == [arcname |-> arcname, data |-> data]

\* base64.b64encode(f.getvalue())
b64encode(entries) == [encoding |-> "base64", entries |-> entries]

CasePath(question_number, file) ==
    <<"es_files", "questions", QDir(question_number), file>>

\* variant: the demo flag is ignored
case_file_ignoring_demo(demo) == "test_cases.py"

\* the case file that is packaged: demo_cases.py if demo, else test_cases.py
case_file(demo) == IF demo THEN "demo_cases.py" ELSE "test_cases.py"

\* variant: the submission file is written to the archive without the
\* existence check, so that ZipFile.write raises FileNotFoundError
package_submission_unchecked(u, c, s, team_name, question_number, demo) ==
    LET names == listdir(u)
        zip_utils == [i \in 1..Len(names) |->
                         ZipEntry(names[i], UtilData(names[i]))]
        case_name == IF demo THEN "demo_cases.py" ELSE "test_cases.py"
        case_path == CasePath(question_number, case_name)
        zip_case == Append(zip_utils,
                           ZipEntry(case_name, CaseData(question_number, case_name)))
        sub_path == <<submissions_dir, QDir(question_number), PyFile(team_name)>>
        zip_all == Append(zip_case, ZipEntry("submission.py", s[sub_path].data))
    IN  IF ~u.exists
        THEN Raise(ResourceNotFoundException, Msg("No Utils Created.", 0, ""))
        ELSE IF ~c[case_path]
        THEN Raise(ResourceNotFoundException,
                   Msg("Question not found", question_number, ""))
        ELSE IF ~s[sub_path].exists
        THEN Raise("FileNotFoundError", Msg("No such file or directory", 0, ""))
        ELSE Return(b64encode(zip_all))

package_submission(u, c, s, team_name, question_number, demo) ==
    LET names == listdir(u)
        zip_utils == [i \in 1..Len(names) |->
                         ZipEntry(names[i], UtilData(names[i]))]
        case_name == case_file(demo)
        case_path == CasePath(question_number, case_name)
        zip_case == Append(zip_utils,
                           ZipEntry(case_name, CaseData(question_number, case_name)))
        sub_path == <<submissions_dir, QDir(question_number), PyFile(team_name)>>
        zip_all == Append(zip_case, ZipEntry("submission.py", s[sub_path].data))
    IN  IF ~u.exists
        THEN Raise(ResourceNotFoundException, Msg("No Utils Created.", 0, ""))
        ELSE IF demo /\ ~c[case_path]
        THEN Raise(ResourceNotFoundException,
                   Msg("Question not found", question_number, ""))
        ELSE IF ~demo /\ ~c[case_path]
        THEN Raise(ResourceNotFoundException,
                   Msg("Demo cases for question not found", question_number, ""))
        ELSE IF ~s[sub_path].exists
        THEN Raise(ResourceNotFoundException,
                   Msg("Team did not submit question", question_number, team_name))
        ELSE Return(b64encode(zip_all))

(***************************************************************************)
(* The judge and SubmissionService.send_to_judge0                          *)
(***************************************************************************)
IntV(i) == [t |-> "int", i |-> i, s |-> <<>>]

StrV(s) == [t |-> "str", i |-> 0, s |-> s]

NullV == [t |-> "null", i |-> 0, s |-> <<>>]

\* one record of the report's "tests"; output is <<>> when the key is absent
Test(name, status, score, max_score, output) ==
    [name |-> name, status |-> status, score |-> score,
     max_score |-> max_score, output |-> output]

Name1 == <<"t","1"," ","x">>

Name2 == <<"t","2"," ","y">>

AssertionError == <<"A","s","s","e","r","t","i","o","n","E","r","r","o","r">>

GoodCode == <<"a">>

EntryData(entries, arcname) ==
    LET idx == {i \in 1..Len(entries) : entries[i].arcname = arcname}
    IN  IF idx = {} THEN <<>>
        ELSE entries[CHOOSE i \in idx : \A k \in idx : k <= i].data

\* a working judge harness: a fixed function of the archive it is sent
Harness(entries) ==
    LET good == EntryData(entries, "submission.py") = GoodCode
        t1 == IF good THEN Test(Name1, "passed", IntV(5), IntV(5), <<>>)
              ELSE Test(Name1, "failed", IntV(0), IntV(5), <<AssertionError>>)
        t2 == Test(Name2, "passed", IntV(5), IntV(5), <<>>)
    IN  IF EntryData(entries, "test_cases.py") # <<>> THEN <<t2, t1>>
        ELSE <<t1>>

Judge(status_code, report, tests) ==
    [status_code |-> status_code, report |-> report, tests |-> tests]

\* the response to POST /submissions?wait=true
judge_response(j, request) ==
    [status_code |-> j.status_code,
     stdout |-> j.report,
     tests |-> IF j.report = "harness"
               THEN Harness(request.additional_files.entries)
               ELSE j.tests]

\* a client that reads the report whatever the response status
send_to_judge0_any_status(j, submission_zip) ==
    LET res == judge_response(j, [additional_files |-> submission_zip,
                                  language_id |-> language_id])
    IN  IF res.stdout = "missing"
        THEN Raise("KeyError", Msg("stdout", 0, ""))
        ELSE IF res.stdout = "null"
        THEN Raise("TypeError", Msg("the JSON object must be str", 0, ""))
        ELSE IF res.stdout = "notjson"
        THEN Raise("JSONDecodeError", Msg("Expecting value", 0, ""))
        ELSE IF res.stdout = "notests"
        THEN Raise("KeyError", Msg("tests", 0, ""))
        ELSE Return(res.tests)

send_to_judge0(j, submission_zip) ==
    LET res == judge_response(j, [additional_files |-> submission_zip,
                                  language_id |-> language_id])
    IN  IF res.status_code # HTTP_CREATED
        THEN Raise("RuntimeError", Msg("Judge0 did not return as expected", 0, ""))
        ELSE IF res.stdout = "missing"          \* res_output["stdout"]
        THEN Raise("KeyError", Msg("stdout", 0, ""))
        ELSE IF res.stdout = "null"             \* json.loads(None)
        THEN Raise("TypeError", Msg("the JSON object must be str", 0, ""))
        ELSE IF res.stdout = "notjson"          \* json.loads("Traceback ...")
        THEN Raise("JSONDecodeError", Msg("Expecting value", 0, ""))
        ELSE IF res.stdout = "notests"          \* test_results["tests"]
        THEN Raise("KeyError", Msg("tests", 0, ""))
        ELSE Return(res.tests)


(***************************************************************************)
(* int(x) of a JSON value                                                  *)
(***************************************************************************)
Digits == <<"0","1","2","3","4","5","6","7","8","9">>

IsDigit(ch) == \E d \in 1..10 : Digits[d] = ch

DigitValue(ch) == (CHOOSE d \in 1..10 : Digits[d] = ch) - 1

RECURSIVE DecimalValue(_, _)
DecimalValue(s, acc) ==
    IF s = <<>> THEN acc
    ELSE DecimalValue(Tail(s), 10 * acc + DigitValue(Head(s)))

int(v) ==
    IF v.t = "int" THEN Return(v.i)
    ELSE IF v.t = "null"
    THEN Raise("TypeError", Msg("int() argument must be a string or a number", 0, ""))
    ELSE IF v.s # <<>> /\ \A k \in 1..Len(v.s) : IsDigit(v.s[k])
    THEN Return(DecimalValue(v.s, 0))
    ELSE Raise("ValueError", Msg("invalid literal for int()", 0, ""))

(***************************************************************************)
(* SubmissionService.run_submission                                        *)
(***************************************************************************)
ConsoleLog(console_log) == [console_log |-> console_log]

\* the text one test appends to out_str (an Outcome: test["output"] may raise)
feedback_line(test) ==
    IF test.status = "failed"
    THEN IF test.output = <<>>
         THEN Raise("KeyError", Msg("output", 0, ""))
         ELSE IF Suffix(test.output[1], SyntaxTailLen) = SyntaxMarker
         THEN Return(SyntaxHeader
                     \o join(<<"\n">>, KeepIndexed(splitlines(test.output[1]), 0))
                     \o <<"\n">>)
         ELSE Return(split0(test.name) \o <<" ">> \o test.output[1])
    ELSE Return(split0(test.name) \o PassedSuffix)

\* for test in test_results: out_str += ...
RECURSIVE feedback_loop(_, _, _)
feedback_loop(test_results, i, out_str) ==
    IF i > Len(test_results) THEN Return(out_str)
    ELSE LET line == feedback_line(test_results[i])
         IN  IF line.exc # "" THEN line
             ELSE feedback_loop(test_results, i + 1, out_str \o line.value[1])

\* what a call leaves behind: the exception or the value, the archive that
\* was built, and the local out_str
CallResult(exc, msg, zip, out_str, value) ==
    [exc |-> exc, msg |-> msg, zip |-> zip, out_str |-> out_str, value |-> value]

run_submission(u, c, s, j, question_num, team_name) ==
    LET submission_zip == package_submission(u, c, s, team_name, question_num, TRUE)
    IN  IF submission_zip.exc # ""
        THEN CallResult(submission_zip.exc, submission_zip.msg, <<>>, <<>>, <<>>)
        ELSE
        LET test_results == send_to_judge0(j, submission_zip.value[1])
        IN  IF test_results.exc # ""
            THEN CallResult(test_results.exc, test_results.msg,
                            submission_zip.value, <<>>, <<>>)
            ELSE
            LET out == feedback_loop(test_results.value[1], 1, Disclaimer)
            IN  IF out.exc # ""
                THEN CallResult(out.exc, out.msg, submission_zip.value, <<>>, <<>>)
                ELSE CallResult("", NoMsg, submission_zip.value, out.value[1],
                                <<ConsoleLog(DropLast(out.value[1]))>>)

(***************************************************************************)
(* SubmissionService.grade_submission                                      *)
(***************************************************************************)
ScoredTest(console_log, test_name, score, max_score) ==
    [console_log |-> console_log, test_name |-> test_name,
     score |-> score, max_score |-> max_score]

\* a ScoredTest with score and max_score exchanged
scored_test_swapped(test) ==
    IF test.status # "passed" /\ test.output = <<>>
    THEN Raise("KeyError", Msg("output", 0, ""))
    ELSE IF int(test.score).exc # "" THEN int(test.score)
    ELSE IF int(test.max_score).exc # "" THEN int(test.max_score)
    ELSE Return(ScoredTest(IF test.status = "passed" THEN PassedLog
                           ELSE test.output[1],
                           test.name,
                           int(test.max_score).value[1],
                           int(test.score).value[1]))

\* the ScoredTest of one test (an Outcome: the keyword arguments are
\* evaluated left to right and each may raise)
scored_test(test) ==
    IF test.status # "passed" /\ test.output = <<>>
    THEN Raise("KeyError", Msg("output", 0, ""))
    ELSE IF int(test.score).exc # "" THEN int(test.score)
    ELSE IF int(test.max_score).exc # "" THEN int(test.max_score)
    ELSE Return(ScoredTest(IF test.status = "passed" THEN PassedLog
                           ELSE test.output[1],
                           test.name,
                           int(test.score).value[1],
                           int(test.max_score).value[1]))

\* for test in test_results: scored_tests.append(...)
RECURSIVE grade_loop(_, _, _)
grade_loop(test_results, i, scored_tests) ==
    IF i > Len(test_results) THEN Return(scored_tests)
    ELSE LET st == scored_test(test_results[i])
         IN  IF st.exc # "" THEN st
             ELSE grade_loop(test_results, i + 1, Append(scored_tests, st.value[1]))

grade_submission(u, c, s, j, question_num, team_name) ==
    LET submission_zip == package_submission(u, c, s, team_name, question_num, FALSE)
    IN  IF submission_zip.exc # ""
        THEN CallResult(submission_zip.exc, submission_zip.msg, <<>>, <<>>, <<>>)
        ELSE
        LET test_results == send_to_judge0(j, submission_zip.value[1])
        IN  IF test_results.exc # ""
            THEN CallResult(test_results.exc, test_results.msg,
                            submission_zip.value, <<>>, <<>>)
            ELSE
            LET scored == grade_loop(test_results.value[1], 1, <<>>)
            IN  IF scored.exc # ""
                THEN CallResult(scored.exc, scored.msg, submission_zip.value,
                                <<>>, <<>>)
                ELSE CallResult("", NoMsg, submission_zip.value, <<>>, scored.value)


(***************************************************************************)
(* main.py: the exception classes with a registered handler, and the       *)
(* status code of the handler's response                                   *)
(***************************************************************************)
exception_handlers ==
    ("ResourceNotFoundException" :> 404)
    @@ ("InvalidCredentialsException" :> 401)
    @@ ("ResourceNotAllowedException" :> 403)

(***************************************************************************)
(* State                                                                   *)
(***************************************************************************)
Pairs == Teams \X Questions

SubPath(team_name, q) == <<submissions_dir, QDir(q), PyFile(team_name)>>

CasePaths == {CasePath(q, f) : q \in Questions, f \in CaseFiles}

UtilNames == {UtilOrder[i] : i \in 1..Len(UtilOrder)}

UtilStates ==
    {[exists |-> FALSE, files |-> {}]}
    \cup {[exists |-> TRUE, files |-> F] : F \in SUBSET UtilNames}

HealthyJudge == Judge(HTTP_CREATED, "harness", <<>>)

\* judge behaviours of the orchestration specification
JudgeStates ==
    {HealthyJudge, Judge(500, "harness", <<>>), Judge(HTTP_CREATED, "notjson", <<>>)}

Ret(op, team, q, r) ==
    [op |-> op, team |-> team, q |-> q, exc |-> r.exc, msg |-> r.msg,
     zip |-> r.zip, out_str |-> r.out_str, value |-> r.value]

NoResult == CallResult("", NoMsg, <<>>, <<>>, <<>>)

Idle == Ret("", "", 0, NoResult)

NoGrade == [team |-> "", q |-> 0, exc |-> "", value |-> <<>>, calls |-> 0]

NoAttempt ==
    [op |-> "", team |-> "", q |-> 0, failed |-> FALSE, repeat |-> FALSE,
     retry |-> FALSE]

\* a request thread: where it is in its call, the call's arguments and, once
\* the call is done, its outcome
Thread(pc, op, q, data, r) ==
    [pc |-> pc, op |-> op, q |-> q, data |-> data, exc |-> r.exc, msg |-> r.msg,
     zip |-> r.zip, out_str |-> r.out_str, value |-> r.value]

IdleThread == Thread("idle", "", 0, <<>>, NoResult)

Init ==
    /\ threads = [t \in Teams |-> IdleThread]
    /\ utils = [exists |-> TRUE, files |-> UtilNames]
    /\ cases = [p \in CasePaths |-> TRUE]
    /\ dirs = {}
    /\ subs = [p \in SubPaths |-> NoFile]
    /\ judge = HealthyJudge
    /\ ret = Idle
    /\ lastSubmit = [p \in Pairs |-> <<>>]
    /\ lastGrade = NoGrade
    /\ attempt = NoAttempt
    /\ nChanges = 0

(***************************************************************************)
(* Calls into SubmissionService                                            *)
(***************************************************************************)
Stored(team_name, submission) ==
    /\ nChanges < MaxChanges
    /\ nChanges' = nChanges + 1
    /\ lastSubmit' = [lastSubmit EXCEPT ![<<team_name, submission.question_num>>] =
                                            <<submission.file_contents>>]

submit(team_name, submission) ==
    /\ dirs' = submit_dirs(dirs, submission)
    /\ subs' = submit_files(subs, team_name, submission)
    /\ ret' = Ret("submit", team_name, submission.question_num, NoResult)
    /\ Stored(team_name, submission)
    /\ UNCHANGED <<utils, cases, judge>>

submit_and_run(team_name, submission) ==
    LET d == submit_dirs(dirs, submission)
        s == submit_files(subs, team_name, submission)
        r == run_submission(utils, cases, s, judge, submission.question_num, team_name)
    IN  /\ dirs' = d
        /\ subs' = s
        /\ ret' = Ret("submit_and_run", team_name, submission.question_num, r)
        /\ Stored(team_name, submission)
        /\ UNCHANGED <<utils, cases, judge>>

\* a run that discards the stored submission when it fails
RunSubmission_discarding(question_num, team_name) ==
    LET r == run_submission(utils, cases, subs, judge, question_num, team_name)
    IN  /\ ret' = Ret("run_submission", team_name, question_num, r)
        /\ subs' = IF r.exc # ""
                   THEN [subs EXCEPT ![SubPath(team_name, question_num)] = NoFile]
                   ELSE subs
        /\ UNCHANGED <<utils, cases, dirs, judge, lastSubmit, nChanges>>

RunSubmission(question_num, team_name) ==
    LET r == run_submission(utils, cases, subs, judge, question_num, team_name)
    IN  /\ ret' = Ret("run_submission", team_name, question_num, r)
        /\ UNCHANGED <<utils, cases, dirs, subs, judge, lastSubmit, nChanges>>

\* a grading that consumes the stored submission
GradeSubmission_consuming(question_num, team_name) ==
    LET r == grade_submission(utils, cases, subs, judge, question_num, team_name)
    IN  /\ ret' = Ret("grade_submission", team_name, question_num, r)
        /\ subs' = [subs EXCEPT ![SubPath(team_name, question_num)] = NoFile]
        /\ UNCHANGED <<utils, cases, dirs, judge, lastSubmit, nChanges>>

GradeSubmission(question_num, team_name) ==
    LET r == grade_submission(utils, cases, subs, judge, question_num, team_name)
    IN  /\ ret' = Ret("grade_submission", team_name, question_num, r)
        /\ UNCHANGED <<utils, cases, dirs, subs, judge, lastSubmit, nChanges>>

(***************************************************************************)
(* The environment: deployment files and the judge are managed externally  *)
(***************************************************************************)
EnvChanged ==
    /\ nChanges < MaxChanges
    /\ nChanges' = nChanges + 1
    /\ ret' = Idle
    /\ UNCHANGED <<dirs, subs, lastSubmit>>

EnvUtils ==
    /\ \E u \in UtilStates \ {utils} : utils' = u
    /\ EnvChanged
    /\ UNCHANGED <<cases, judge>>

EnvCases ==
    /\ \E p \in CasePaths : cases' = [cases EXCEPT ![p] = ~cases[p]]
    /\ EnvChanged
    /\ UNCHANGED <<utils, judge>>

EnvJudge ==
    /\ \E j \in JudgeStates \ {judge} : judge' = j
    /\ EnvChanged
    /\ UNCHANGED <<utils, cases>>

StepSubmit ==
    \E t \in Teams, q \in Questions, c \in FileContents :
        submit(t, Submission(q, c))

StepSubmitAndRun ==
    \E t \in Teams, q \in Questions, c \in FileContents :
        submit_and_run(t, Submission(q, c))

StepRun == \E t \in Teams, q \in Questions : RunSubmission(q, t)

StepGrade == \E t \in Teams, q \in Questions : GradeSubmission(q, t)

NoHistory == UNCHANGED <<lastGrade, attempt, threads>>

Next ==
    \/ StepSubmit /\ NoHistory
    \/ StepSubmitAndRun /\ NoHistory
    \/ StepRun /\ NoHistory
    \/ StepGrade /\ NoHistory
    \/ EnvUtils /\ NoHistory
    \/ EnvCases /\ NoHistory
    \/ EnvJudge /\ NoHistory

Spec == Init /\ [][Next]_vars

(***************************************************************************)
(* History of runs, for retries                                            *)
(***************************************************************************)
RunOps == {"run_submission", "grade_submission"}

\* the latest run, whether it failed, whether the run before it was the
\* same call, and whether that one failed; a store in between forgets it
Attempt(h, op, team, q, failed) ==
    [op |-> op, team |-> team, q |-> q, failed |-> failed,
     repeat |-> h.op = op /\ h.team = team /\ h.q = q,
     retry |-> h.op = op /\ h.team = team /\ h.q = q /\ h.failed]

TrackAttempt ==
    attempt' =
        IF ret'.op \in RunOps
        THEN Attempt(attempt, ret'.op, ret'.team, ret'.q, ret'.exc # "")
        ELSE IF ret'.op = "submit_and_run"
        THEN Attempt(NoAttempt, "run_submission", ret'.team, ret'.q, ret'.exc # "")
        ELSE IF ret'.op = "submit" THEN NoAttempt
        ELSE attempt

RetryHistory == TrackAttempt /\ UNCHANGED <<lastGrade, threads>>

NextRetry ==
    \/ StepSubmit /\ RetryHistory
    \/ StepSubmitAndRun /\ RetryHistory
    \/ StepRun /\ RetryHistory
    \/ StepGrade /\ RetryHistory
    \/ EnvUtils /\ RetryHistory
    \/ EnvCases /\ RetryHistory
    \/ EnvJudge /\ RetryHistory

SpecRetry == Init /\ [][NextRetry]_vars

(***************************************************************************)
(* History of grade_submission, for repeated calls                         *)
(***************************************************************************)
\* the first grade_submission outcome of one pair since its submission,
\* the case files, the utilities and the judge last changed, and whether it
\* was called once or more often since; calls for other pairs may come in
\* between
TrackGrade ==
    /\ \/ /\ ret'.op = "grade_submission"
          /\ IF lastGrade.team = ret'.team /\ lastGrade.q = ret'.q
             THEN lastGrade' = [lastGrade EXCEPT !.calls = 2]
             ELSE \/ lastGrade' = [team |-> ret'.team, q |-> ret'.q,
                                   exc |-> ret'.exc, value |-> ret'.value,
                                   calls |-> 1]
                  \/ lastGrade.team # "" /\ lastGrade' = lastGrade
       \/ /\ ret'.op \in {"submit", "submit_and_run"}
          /\ lastGrade' = IF lastGrade.team = ret'.team /\ lastGrade.q = ret'.q
                          THEN NoGrade ELSE lastGrade
       \/ /\ ret'.op = "run_submission"
          /\ lastGrade' = lastGrade
       \/ /\ ret'.op = ""
          /\ lastGrade' = NoGrade
    /\ UNCHANGED <<attempt, threads>>

NextIdem ==
    \/ StepSubmit /\ TrackGrade
    \/ StepSubmitAndRun /\ TrackGrade
    \/ StepRun /\ TrackGrade
    \/ StepGrade /\ TrackGrade
    \/ EnvUtils /\ TrackGrade
    \/ EnvCases /\ TrackGrade
    \/ EnvJudge /\ TrackGrade

SpecIdem == Init /\ [][NextIdem]_vars


(***************************************************************************)
(* Judge reports, for the interpretation of results                        *)
(***************************************************************************)
Name3 == <<"t","3">>

InvalidSyntax == <<"i","n","v","a","l","i","d"," ","s","y","n","t","a","x">>

\* line i (from 0) of a traceback of n lines that ends "invalid syntax\n\n"
TraceLine(n, i) ==
    IF i = n - 1 THEN <<>>
    ELSE IF i = n - 2 THEN <<"S","y","n","t","a","x","E","r","r","o","r",":"," ">>
                           \o InvalidSyntax
    ELSE <<"L", ToString(i)>>

RECURSIVE TraceFrom(_, _)
TraceFrom(n, i) ==
    IF i >= n THEN <<>> ELSE TraceLine(n, i) \o <<"\n">> \o TraceFrom(n, i + 1)

Trace(n) == TraceFrom(n, 0)

TraceSizes == {3, 12, 13}

TestRecords ==
    {Test(Name1, "passed", IntV(5), IntV(5), <<>>),
     Test(Name2, "failed", IntV(0), IntV(5), <<AssertionError>>),
     Test(Name3, "failed", IntV(2), IntV(5), <<AssertionError \o <<"\n">> >>),
     Test(Name2, "passed", StrV(<<"1","2">>), IntV(20), <<>>),
     Test(Name1, "passed", StrV(<<"x">>), IntV(5), <<>>),
     Test(Name2, "failed", IntV(0), NullV, <<AssertionError>>),
     Test(Name1, "failed", IntV(0), IntV(5), <<>>)}
    \cup {Test(Name1, "failed", IntV(0), IntV(5), <<Trace(n)>>) : n \in TraceSizes}

Payloads == UNION {[1..n -> TestRecords] : n \in 0..MaxTests}

ExamplePayload ==
    <<Test(Name1, "passed", IntV(5), IntV(5), <<>>),
      Test(Name2, "failed", IntV(0), IntV(5), <<AssertionError>>)>>

MalformedReports == {"missing", "null", "notjson", "notests"}

JudgeReports ==
    {Judge(HTTP_CREATED, "fixed", p) : p \in Payloads}
    \cup {Judge(HTTP_CREATED, r, <<>>) : r \in MalformedReports}
    \cup {Judge(st, "fixed", ExamplePayload) : st \in {200, 500}}

InitInterp ==
    /\ threads = [t \in Teams |-> IdleThread]
    /\ utils = [exists |-> TRUE, files |-> UtilNames]
    /\ cases = [p \in CasePaths |-> TRUE]
    /\ dirs = {<<submissions_dir>>, <<submissions_dir, QDir(1)>>}
    /\ subs = [p \in SubPaths |-> IF p = SubPath("t1", 1) THEN File(GoodCode)
                                  ELSE NoFile]
    /\ judge \in JudgeReports
    /\ ret = Idle
    /\ lastSubmit = [p \in Pairs |-> IF p = <<"t1", 1>> THEN <<GoodCode>> ELSE <<>>]
    /\ lastGrade = NoGrade
    /\ attempt = NoAttempt
    /\ nChanges = 1

NextInterp ==
    \/ StepRun /\ NoHistory
    \/ StepGrade /\ NoHistory

SpecInterp == InitInterp /\ [][NextInterp]_vars


(***************************************************************************)
(* Concurrent calls: one request thread per team, each call a sequence of  *)
(* file-system operations that interleave with those of the other thread   *)
(***************************************************************************)
StoreOps == {"submit", "submit_and_run"}

Free(t) == threads[t].pc \in {"idle", "done"}

At(t, pc) == threads[t].pc = pc

Goto(t, pc) == threads' = [threads EXCEPT ![t].pc = pc]

\* the call of thread t is over, with outcome r
Done(t, r) ==
    threads' = [threads EXCEPT
                   ![t] = Thread("done", threads[t].op, threads[t].q,
                                 threads[t].data, r)]

FileExistsError(path) ==
    CallResult("FileExistsError", Msg("File exists", 0, ""), <<>>, <<>>, <<>>)

\* a request for submit or submit_and_run arrives for team t
CallStore(t) ==
    /\ Free(t)
    /\ nChanges < MaxChanges
    /\ nChanges' = nChanges + 1
    /\ \E op \in StoreOps, q \in Questions, c \in FileContents :
           /\ threads' = [threads EXCEPT
                             ![t] = Thread("exists_submissions_dir", op, q, c,
                                           NoResult)]
           /\ lastSubmit' = [lastSubmit EXCEPT ![<<t, q>>] = <<c>>]
    /\ UNCHANGED <<utils, cases, dirs, subs, judge>>

\* a request for run_submission or grade_submission arrives for team t
CallRun(t) ==
    /\ Free(t)
    /\ \E op \in RunOps, q \in Questions :
           threads' = [threads EXCEPT
                          ![t] = Thread("package_submission", op, q, <<>>,
                                        NoResult)]
    /\ UNCHANGED <<utils, cases, dirs, subs, judge, lastSubmit, nChanges>>

\* if not os.path.exists(submissions_dir):
ExistsSubmissionsDir(t) ==
    /\ At(t, "exists_submissions_dir")
    /\ Goto(t, IF <<submissions_dir>> \in dirs THEN "exists_question_dir"
               ELSE "makedirs_submissions_dir")
    /\ UNCHANGED <<utils, cases, dirs, subs, judge, lastSubmit, nChanges>>

\* os.makedirs(submissions_dir): raises when the directory exists
MakedirsSubmissionsDir(t) ==
    /\ At(t, "makedirs_submissions_dir")
    /\ IF <<submissions_dir>> \in dirs
       THEN Done(t, FileExistsError(<<submissions_dir>>)) /\ dirs' = dirs
       ELSE /\ dirs' = dirs \cup {<<submissions_dir>>}
            /\ Goto(t, "exists_question_dir")
    /\ UNCHANGED <<utils, cases, subs, judge, lastSubmit, nChanges>>

\* if not os.path.exists(os.path.join(submissions_dir, question_dir)):
ExistsQuestionDir(t) ==
    /\ At(t, "exists_question_dir")
    /\ Goto(t, IF <<submissions_dir, QDir(threads[t].q)>> \in dirs
               THEN "open" ELSE "makedirs_question_dir")
    /\ UNCHANGED <<utils, cases, dirs, subs, judge, lastSubmit, nChanges>>

\* os.makedirs(os.path.join(submissions_dir, question_dir)): raises when
\* the directory exists
MakedirsQuestionDir(t) ==
    /\ At(t, "makedirs_question_dir")
    /\ IF <<submissions_dir, QDir(threads[t].q)>> \in dirs
       THEN Done(t, FileExistsError(<<submissions_dir, QDir(threads[t].q)>>))
            /\ dirs' = dirs
       ELSE /\ dirs' = submit_dirs(dirs, Submission(threads[t].q, threads[t].data))
            /\ Goto(t, "open")
    /\ UNCHANGED <<utils, cases, subs, judge, lastSubmit, nChanges>>

\* open(path, "w"): the file exists and is empty
OpenFile(t) ==
    /\ At(t, "open")
    /\ subs' = submit_files(subs, t, Submission(threads[t].q, <<>>))
    /\ Goto(t, "write")
    /\ UNCHANGED <<utils, cases, dirs, judge, lastSubmit, nChanges>>

\* f.write(submission.file_contents) and the close of the with block; submit
\* returns, submit_and_run goes on to run_submission
WriteFile(t) ==
    /\ At(t, "write")
    /\ subs' = submit_files(subs, t, Submission(threads[t].q, threads[t].data))
    /\ IF threads[t].op = "submit" THEN Done(t, NoResult)
       ELSE Goto(t, "package_submission")
    /\ UNCHANGED <<utils, cases, dirs, judge, lastSubmit, nChanges>>

\* package_submission reads the files, the judge answers, the result is
\* interpreted: only the reads touch what other threads write
RunOrGrade(t) ==
    /\ At(t, "package_submission")
    /\ Done(t, IF threads[t].op = "grade_submission"
               THEN grade_submission(utils, cases, subs, judge, threads[t].q, t)
               ELSE run_submission(utils, cases, subs, judge, threads[t].q, t))
    /\ UNCHANGED <<utils, cases, dirs, subs, judge, lastSubmit, nChanges>>

NoSequentialCall == UNCHANGED <<ret, lastGrade, attempt>>

NextConc ==
    \/ \E t \in Teams : CallStore(t) /\ NoSequentialCall
    \/ \E t \in Teams : CallRun(t) /\ NoSequentialCall
    \/ \E t \in Teams : ExistsSubmissionsDir(t) /\ NoSequentialCall
    \/ \E t \in Teams : MakedirsSubmissionsDir(t) /\ NoSequentialCall
    \/ \E t \in Teams : ExistsQuestionDir(t) /\ NoSequentialCall
    \/ \E t \in Teams : MakedirsQuestionDir(t) /\ NoSequentialCall
    \/ \E t \in Teams : OpenFile(t) /\ NoSequentialCall
    \/ \E t \in Teams : WriteFile(t) /\ NoSequentialCall
    \/ \E t \in Teams : RunOrGrade(t) /\ NoSequentialCall

SpecConc == Init /\ [][NextConc]_vars


(***************************************************************************)
(* Properties                                                              *)
(***************************************************************************)
\* the calls that package an archive
PackagingOps == {"run_submission", "grade_submission", "submit_and_run"}

\* feedback mode (demo = True) or scoring mode (demo = False) of the call
FeedbackMode == ret.op \in {"run_submission", "submit_and_run"}

SlotName == IF FeedbackMode THEN "demo_cases.py" ELSE "test_cases.py"

OtherSlotName == IF FeedbackMode THEN "test_cases.py" ELSE "demo_cases.py"

\* the three sources of the archive of the call that has just completed
HasUtilities == utils.exists

HasCaseFile == cases[<<"es_files", "questions", QDir(ret.q), SlotName>>]

StoredFile(team, q) == subs[<<submissions_dir, QDir(q), <<team, ".py">> >>]

HasSubmission == StoredFile(ret.team, ret.q).exists

EntriesNamed(entries, name) == {i \in 1..Len(entries) : entries[i].arcname = name}

\* C1: when the utilities directory, the mode's case file or the team's
\* stored submission is missing, the call fails with ResourceNotFound and
\* no archive, partial or not, is returned or dispatched.
C1_NoPartialArchive ==
    (ret.op \in PackagingOps /\ ~(HasUtilities /\ HasCaseFile /\ HasSubmission))
    => /\ ret.exc = "ResourceNotFoundException"
       /\ ret.zip = <<>>
       /\ ret.out_str = <<>>
       /\ ret.value = <<>>

\* C1 witness: utilities and case file are there and only the submission is
\* missing, so a partial archive had been written before the failure.
C1_Witness ==
    /\ ret.op = "grade_submission"
    /\ HasUtilities /\ utils.files # {} /\ HasCaseFile /\ ~HasSubmission
    /\ ret.exc = "ResourceNotFoundException"
    /\ ret.zip = <<>>

\* C2: with all three sources present the archive is built and has exactly
\* 2 + |utilities| entries: each utilities file once under its own name, one
\* case file under the mode's slot name and none under the other mode's, and
\* one submission.py holding the stored submission.
C2_ArchiveLayout ==
    (ret.op \in PackagingOps /\ HasUtilities /\ HasCaseFile /\ HasSubmission)
    => /\ ret.zip # <<>>
       /\ LET entries == ret.zip[1].entries
          IN  /\ Len(entries) = 2 + Cardinality(utils.files)
              /\ \A n \in utils.files :
                     /\ Cardinality(EntriesNamed(entries, n)) = 1
                     /\ \A i \in EntriesNamed(entries, n) :
                            entries[i].data = <<"#", n>>
              /\ Cardinality(EntriesNamed(entries, SlotName)) = 1
              /\ \A i \in EntriesNamed(entries, SlotName) :
                     entries[i].data = <<"#", QDir(ret.q), SlotName>>
              /\ EntriesNamed(entries, OtherSlotName) = {}
              /\ Cardinality(EntriesNamed(entries, "submission.py")) = 1
              /\ \A i \in EntriesNamed(entries, "submission.py") :
                     entries[i].data = StoredFile(ret.team, ret.q).data

\* C2 witness: a feedback run of team t2 with two utilities files: 4 entries.
C2_Witness ==
    /\ ret.op = "run_submission"
    /\ ret.team = "t2"
    /\ ret.zip # <<>>
    /\ Cardinality(utils.files) = 2
    /\ Len(ret.zip[1].entries) = 4
    /\ EntriesNamed(ret.zip[1].entries, "demo_cases.py") # {}

\* C3: the run of submit_and_run never fails for a missing submission; when
\* it fails, the utilities or the case file are missing or the judge is at
\* fault.
C3_StoreThenRun ==
    ret.op = "submit_and_run"
    => /\ ~(ret.exc = "ResourceNotFoundException"
            /\ ret.msg.text = "Team did not submit question")
       /\ ret.exc # "" => (~HasUtilities \/ ~HasCaseFile \/ judge # HealthyJudge)

\* C3 witness: submit_and_run for question 2 returned a console log after
\* earlier stores or environment changes.
C3_Witness ==
    /\ ret.op = "submit_and_run"
    /\ ret.q = 2
    /\ ret.exc = ""
    /\ ret.value # <<>>
    /\ nChanges = MaxChanges

\* the call reached the judge: its archive was built and dispatched
Dispatched == ret.op \in RunOps /\ ret.zip # <<>>

\* C4: when the judge answers a dispatch with a status other than 201,
\* run_submission and grade_submission fail with the judge-unavailable error
\* (the RuntimeError of send_to_judge0) and return no ConsoleLog and no
\* ScoredTest list; that error occurs in no other case: never for a missing
\* source (ResourceNotFound, which has its own handler) and never when the
\* judge answered 201, whatever the tests of the student code did.
C4_NonSuccessStatus ==
    /\ (Dispatched /\ judge.status_code # 201)
       => /\ ret.exc = "RuntimeError"
          /\ ret.value = <<>>
          /\ ret.out_str = <<>>
    /\ (ret.op \in RunOps /\ ret.exc = "RuntimeError")
       => /\ judge.status_code # 201
          /\ ret.exc # "ResourceNotFoundException"
          /\ ret.exc \notin DOMAIN exception_handlers
          /\ HasUtilities /\ HasCaseFile /\ HasSubmission

\* C4 witness: the judge answered a grading dispatch with status 200.
C4_Witness ==
    /\ ret.op = "grade_submission"
    /\ Dispatched
    /\ judge.status_code = 200
    /\ ret.exc = "RuntimeError"
    /\ ret.value = <<>>

\* a JSON value that int() accepts
Coercible(v) ==
    \/ v.t = "int"
    \/ /\ v.t = "str"
       /\ v.s # <<>>
       /\ \A k \in 1..Len(v.s) :
              v.s[k] \in {"0", "1", "2", "3", "4", "5", "6", "7", "8", "9"}

\* a report whose stdout is missing or is not a record, that has no tests,
\* or that has a test whose score or max_score is not integer-coercible
MalformedReport(j) ==
    \/ j.report \in {"missing", "null", "notjson", "notests"}
    \/ /\ j.report = "fixed"
       /\ \E i \in 1..Len(j.tests) :
              ~Coercible(j.tests[i].score) \/ ~Coercible(j.tests[i].max_score)

\* C5: when the judge answers 201 with a malformed report, the run fails
\* with the same judge-unavailable error as for a non-201 status and returns
\* no result (so none with a malformed score defaulted to zero).
C5_MalformedReport ==
    (Dispatched /\ judge.status_code = 201 /\ MalformedReport(judge))
    => /\ ret.exc = "RuntimeError"
       /\ ret.value = <<>>

\* C6: a run_submission or grade_submission step, failed or not, leaves the
\* stored submissions and their directories as they were; and a run repeated
\* after a failed one, with no store in between, succeeds as soon as the
\* three sources are present and the judge works.
C6_RunsKeepStorage ==
    /\ [][ret'.op \in RunOps => (subs' = subs /\ dirs' = dirs)]_vars
    /\ []((attempt.retry /\ ret.op \in RunOps
           /\ HasUtilities /\ HasCaseFile /\ HasSubmission
           /\ judge = HealthyJudge)
          => (ret.exc = "" /\ ret.value # <<>>))

\* C6 witness: a grading that was repeated after a failed one and succeeded;
\* the submission it graded had been stored before the failed attempt.
C6_Witness ==
    /\ attempt.retry
    /\ ret.op = "grade_submission"
    /\ ret.exc = ""
    /\ ret.value # <<>>
    /\ HasSubmission

\* C7: the stored submission of every (team, question) is exactly the file
\* contents of the latest submit for that pair, and there is none for a pair
\* that never submitted.
C7_LatestSubmissionStored ==
    \A t \in Teams, q \in Questions :
        IF lastSubmit[<<t, q>>] = <<>>
        THEN ~StoredFile(t, q).exists
        ELSE /\ StoredFile(t, q).exists
             /\ StoredFile(t, q).data = lastSubmit[<<t, q>>][1]

\* C7 witness: three stores and no environment change (one environment
\* change alone cannot leave the environment as it started) left two stored
\* submissions: one pair was overwritten and the other kept its own.
C7_Witness ==
    /\ nChanges = 3
    /\ utils = [exists |-> TRUE, files |-> UtilNames]
    /\ \A p \in CasePaths : cases[p]
    /\ judge = HealthyJudge
    /\ Cardinality({p \in SubPaths : subs[p].exists}) = 2
    /\ \E t \in Teams, q \in Questions : lastSubmit[<<t, q>>] = << <<"b">> >>


\* a payload that grade_submission can read: every score and max_score is
\* integer-coercible and every test that did not pass has an output
WellFormedPayload(p) ==
    \A i \in 1..Len(p) :
        /\ Coercible(p[i].score)
        /\ Coercible(p[i].max_score)
        /\ p[i].status # "passed" => p[i].output # <<>>

\* n is the integer of the JSON value v
IntegerOf(v, n) ==
    \/ v.t = "int" /\ n = v.i
    \/ v = [t |-> "str", i |-> 0, s |-> <<"1", "2">>] /\ n = 12

\* C8: grade_submission returns one ScoredTest per test record of the
\* payload, in payload order, with test_name, score and max_score of the
\* record (as integers) and console_log "Passed" for a passed test and the
\* raw output otherwise; [passed "t1 x" 5/5, failed "t2 y" 0/5 with output
\* AssertionError] gives [(Passed, t1 x, 5, 5), (AssertionError, t2 y, 0, 5)].
C8_OneScoredTestPerRecord ==
    (ret.op = "grade_submission" /\ Dispatched /\ judge.status_code = 201
     /\ judge.report = "fixed" /\ WellFormedPayload(judge.tests))
    => /\ ret.exc = ""
       /\ ret.value # <<>>
       /\ LET p == judge.tests
              out == ret.value[1]
          IN  /\ Len(out) = Len(p)
              /\ \A i \in 1..Len(p) :
                     /\ out[i].test_name = p[i].name
                     /\ IntegerOf(p[i].score, out[i].score)
                     /\ IntegerOf(p[i].max_score, out[i].max_score)
                     /\ out[i].console_log =
                            IF p[i].status = "passed"
                            THEN <<"P", "a", "s", "s", "e", "d">>
                            ELSE p[i].output[1]
       /\ judge.tests = ExamplePayload
          => ret.value[1] =
                 <<[console_log |-> <<"P", "a", "s", "s", "e", "d">>,
                    test_name |-> <<"t", "1", " ", "x">>,
                    score |-> 5, max_score |-> 5],
                   [console_log |-> <<"A", "s", "s", "e", "r", "t", "i", "o",
                                      "n", "E", "r", "r", "o", "r">>,
                    test_name |-> <<"t", "2", " ", "y">>,
                    score |-> 0, max_score |-> 5]>>

\* C8 witness: the example payload was graded.
C8_Witness ==
    /\ ret.op = "grade_submission"
    /\ judge = Judge(201, "fixed", ExamplePayload)
    /\ ret.exc = ""
    /\ ret.value # <<>>
    /\ Len(ret.value[1]) = 2

\* C9: a grade_submission of a pair whose submission, case files, utilities
\* and judge are as they were at an earlier grade_submission of that pair
\* has the same outcome: the same ScoredTest list, or the same failure.
C9_GradeIdempotent ==
    (ret.op = "grade_submission"
     /\ lastGrade.team = ret.team /\ lastGrade.q = ret.q)
    => /\ ret.exc = lastGrade.exc
       /\ ret.value = lastGrade.value

\* C9 witness: the second grading of a pair returned a non-empty list.
C9_Witness ==
    /\ ret.op = "grade_submission"
    /\ lastGrade.team = ret.team /\ lastGrade.q = ret.q
    /\ lastGrade.calls = 2
    /\ ret.exc = ""
    /\ ret.value # <<>>
    /\ Len(ret.value[1]) = 2

\* the first token of the names of the test records
NameToken(name) ==
    IF name = <<"t", "1", " ", "x">> THEN <<"t", "1">>
    ELSE IF name = <<"t", "2", " ", "y">> THEN <<"t", "2">>
    ELSE <<"t", "3">>

IsSyntaxRecord(test) ==
    /\ test.status = "failed"
    /\ \E n \in TraceSizes : test.output = <<Trace(n)>>

\* the lines 1, 8, 9, 10 and 11 that a traceback of n lines has, each with
\* its line terminator
SyntaxLines(n) ==
    LET L(i) == IF i < n THEN TraceLine(n, i) \o <<"\n">> ELSE <<>>
    IN  L(1) \o L(8) \o L(9) \o L(10) \o L(11)

\* what one test record contributes to the console log
RecordText(test) ==
    IF IsSyntaxRecord(test)
    THEN SyntaxHeader
         \o SyntaxLines(CHOOSE n \in TraceSizes : test.output = <<Trace(n)>>)
    ELSE IF test.status = "failed"
    THEN NameToken(test.name) \o <<" ">> \o test.output[1]
    ELSE NameToken(test.name) \o <<" ", "p", "a", "s", "s", "e", "d", "!", "\n">>

\* the line terminator that ends a record's contribution: a raw output has
\* none of its own
Terminator(test) ==
    IF test.status = "failed" /\ ~IsSyntaxRecord(test) THEN 0 ELSE 1

RECURSIVE ExpectedText(_, _)
ExpectedText(p, i) ==
    IF i > Len(p) THEN <<>> ELSE RecordText(p[i]) \o ExpectedText(p, i + 1)

\* C10: the console log of run_submission has, after the disclaimer and in
\* payload order, for a failed record whose output ends "invalid syntax\n\n"
\* the syntax-error header and the lines 1, 8, 9, 10 and 11 of the output
\* and no other line of it, and for any other failed record the first token
\* of the test name, a blank and the raw output; at most the line terminator
\* of the last contribution is missing.
C10_FeedbackLines ==
    (ret.op = "run_submission" /\ Dispatched /\ judge.status_code = 201
     /\ judge.report = "fixed" /\ Len(judge.tests) > 0
     /\ \A i \in 1..Len(judge.tests) :
            judge.tests[i].status = "failed" => judge.tests[i].output # <<>>)
    => /\ ret.exc = ""
       /\ ret.value # <<>>
       /\ LET full == Disclaimer \o ExpectedText(judge.tests, 1)
              log == ret.value[1].console_log
              last == judge.tests[Len(judge.tests)]
          IN  /\ Len(log) <= Len(full)
              /\ Len(log) >= Len(full) - Terminator(last)
              /\ log = SubSeq(full, 1, Len(log))

\* the number of characters the append pattern leaves dangling at the end of
\* the assembled log: the line terminator after the disclaimer, after a
\* syntax-error block or after "passed!"; none after a raw output
Dangling(p) == IF Len(p) = 0 THEN 1 ELSE Terminator(p[Len(p)])

\* C11: for every payload the console log of run_submission is the
\* disclaimer and every record's text in payload order with only a dangling
\* line separator of the append pattern removed, so that no character of a
\* test's output is lost; one passed test "t1 x" gives the disclaimer and
\* "t1 passed!".
C11_OnlySeparatorDropped ==
    (ret.op = "run_submission" /\ Dispatched /\ judge.status_code = 201
     /\ judge.report = "fixed"
     /\ \A i \in 1..Len(judge.tests) :
            judge.tests[i].status = "failed" => judge.tests[i].output # <<>>)
    => /\ ret.exc = ""
       /\ ret.value # <<>>
       /\ LET full == Disclaimer \o ExpectedText(judge.tests, 1)
              log == ret.value[1].console_log
          IN  /\ log = SubSeq(full, 1, Len(full) - Dangling(judge.tests))
              /\ (Len(judge.tests) = 1 /\ judge.tests[1].status = "passed"
                  /\ judge.tests[1].name = <<"t", "1", " ", "x">>)
                 => log = Disclaimer
                          \o <<"t", "1", " ", "p", "a", "s", "s", "e", "d", "!">>

\* the stored submissions when the calls of every pair are taken alone, one
\* after the other: every pair holds what was last submitted for it
StoredAlone ==
    [p \in SubPaths |->
        LET pair == CHOOSE pr \in Pairs : SubPath(pr[1], pr[2]) = p
        IN  IF lastSubmit[pair] = <<>> THEN NoFile
            ELSE File(lastSubmit[pair][1])]

\* the outcome a run of (team, q) has when only the pair's own calls count
RunAlone(op, team, q) ==
    IF op = "grade_submission"
    THEN grade_submission(utils, cases, StoredAlone, judge, q, team)
    ELSE run_submission(utils, cases, StoredAlone, judge, q, team)

\* C12: when the teams' calls interleave, each thread on pairs of its own
\* team, a pair's stored submission is what was last submitted for it
\* whenever the team has no submit in progress, a submit of the pair
\* completes, the submission.py of an archive dispatched for the pair holds
\* the contents last stored for it, and each run of the pair has the outcome
\* it has without the other team's calls.
C12_PairsIndependent ==
    \A t \in Teams :
        Free(t)
        => /\ \A q \in Questions : StoredFile(t, q) = StoredAlone[SubPath(t, q)]
           /\ threads[t].op \in StoreOps => threads[t].exc # "FileExistsError"
           /\ threads[t].op = "submit" => threads[t].exc = ""
           /\ threads[t].zip # <<>>
              => /\ lastSubmit[<<t, threads[t].q>>] # <<>>
                 /\ EntryData(threads[t].zip[1].entries, "submission.py")
                        = lastSubmit[<<t, threads[t].q>>][1]
           /\ threads[t].op \in RunOps \cup {"submit_and_run"}
              => LET r == RunAlone(threads[t].op, t, threads[t].q)
                 IN  /\ threads[t].exc = r.exc
                     /\ threads[t].msg = r.msg
                     /\ threads[t].zip = r.zip
                     /\ threads[t].value = r.value

====
